---------------------------- MODULE Spec2Model ----------------------------
(***************************************************************************)
(* AP_Proximity_Backend: the sector based distance store of the proximity  *)
(* library, its boundary polygon and its queries.                          *)
(*                                                                         *)
(* Units.  The code works in float; the model carries                      *)
(*   - every float angle in HALF DEGREES (so that width/2.0f is exact),    *)
(*   - every distance in centimetres,                                      *)
(*   - every 2D vector in polar form [ang, len]: ang in half degrees, len  *)
(*     in 1/100 cm (an edge vector has length 100, line 171-172).          *)
(* Integer typed values of the code (_sector_middle_deg, _sector_width_deg,*)
(* the ignore parameters, int16_t angles) stay whole degrees.              *)
(***************************************************************************)
EXTENDS Integers, Sequences, FiniteSets, TLC

VARIABLES
    _num_sectors,          \* uint8_t _num_sectors
    _sector_middle_deg,    \* uint16_t _sector_middle_deg[], whole degrees
    _sector_width_deg,     \* uint8_t _sector_width_deg[], whole degrees
    _angle,                \* float _angle[], half degrees
    _distance,             \* float _distance[], cm
    _distance_valid,       \* bool _distance_valid[]
    _boundary_point,       \* Vector2f _boundary_point[]
    _sector_edge_vector,   \* Vector2f _sector_edge_vector[]
    status,                \* state.status
    _ignore_angle_deg,     \* frontend._ignore_angle_deg[], whole degrees
    _ignore_width_deg,     \* frontend._ignore_width_deg[], whole degrees
    written,               \* history: the <<angle, distance>> last written to each sector
    op                     \* the call in progress: its name, arguments, return value and outputs

vars == << _num_sectors, _sector_middle_deg, _sector_width_deg, _angle, _distance,
           _distance_valid, _boundary_point, _sector_edge_vector, status,
           _ignore_angle_deg, _ignore_width_deg, written, op >>

\* what only the backend's writers change
store == << _angle, _distance, _distance_valid, _boundary_point,
            _sector_edge_vector, status >>

\* what is fixed at construction or owned by the frontend's parameters
config == << _num_sectors, _sector_middle_deg, _sector_width_deg,
             _ignore_angle_deg, _ignore_width_deg >>

(***************************************************************************)
(* Bounds and sample sets                                                  *)
(***************************************************************************)
\* largest sector count explored (the arrays hold PROXIMITY_SECTORS_MAX)
MaxSectors == 3

\* number of ignore-zone slots explored
PROXIMITY_MAX_IGNORE == 2

\* minimum distance of a boundary point, cm (0.6 m)
PROXIMITY_BOUNDARY_DIST_MIN == 60

\* distance_max() of the sensor, cm
distance_max == 400

Sectors == 0 .. (_num_sectors - 1)
SectorSlots == 0 .. (MaxSectors - 1)
IgnoreSlots == 0 .. (PROXIMITY_MAX_IGNORE - 1)

Proximity_Status == {"Proximity_NotConnected", "Proximity_NoData", "Proximity_Good"}

\* what an output parameter holds before a call: a value no operation produces
PriorValues == {7}

MIN(a, b) == IF a < b THEN a ELSE b

(***************************************************************************)
(* Angle helpers (AP_Math), in half degrees                                *)
(***************************************************************************)
\* wrap_360: into [0, 360)
wrap_360(h) == h % 720

\* wrap_180: the shortest signed path, into (-180, 180]
wrap_180(h) == IF wrap_360(h) > 360 THEN wrap_360(h) - 720 ELSE wrap_360(h)

fabsf(x) == IF x < 0 THEN -x ELSE x

\* conversion of a non-integral float to an integer type: truncation toward zero
Trunc(num, den) == IF num >= 0 THEN num \div den ELSE -((-num) \div den)

(***************************************************************************)
(* Vector2f in polar form                                                  *)
(***************************************************************************)
ZeroVec == [ang |-> 0, len |-> 0]

is_zero(v) == v.len = 0

\* Vector2f * float
Scale(v, d) == IF v.len * d = 0 THEN ZeroVec ELSE [ang |-> v.ang, len |-> v.len * d]

\* lines 170-172: (cosf, sinf)(middle + width/2) * 100
EdgeVector(middle, width) == [ang |-> 2 * middle + width, len |-> 100]

(***************************************************************************)
(* convert_angle_to_sector, lines 204-244                                  *)
(***************************************************************************)
RECURSIVE SectorScan_last_closest(_, _, _, _, _, _)
\* SectorScan with "<=" for "<" in line 225: the last of several nearest sectors wins
SectorScan_last_closest(i, angle_degrees, closest_found, closest_sector, closest_angle, sector) ==
    IF i >= _num_sectors
    THEN IF closest_found
         THEN [ret |-> TRUE, sector |-> closest_sector]
         ELSE [ret |-> FALSE, sector |-> sector]
    ELSE LET angle_diff == fabsf(wrap_180(2 * _sector_middle_deg[i] - angle_degrees))
             closer == ~closest_found \/ angle_diff <= closest_angle
         IN  IF fabsf(angle_diff) <= _sector_width_deg[i]
             THEN [ret |-> TRUE, sector |-> i]
             ELSE SectorScan_last_closest(i + 1, angle_degrees,
                             TRUE,
                             IF closer THEN i ELSE closest_sector,
                             IF closer THEN angle_diff ELSE closest_angle,
                             sector)

RECURSIVE SectorScan(_, _, _, _, _, _)
\* the loop of lines 221-235 from index i on, then lines 238-243
SectorScan(i, angle_degrees, closest_found, closest_sector, closest_angle, sector) ==
    IF i >= _num_sectors
    THEN IF closest_found
         THEN [ret |-> TRUE, sector |-> closest_sector]
         ELSE [ret |-> FALSE, sector |-> sector]
    ELSE LET angle_diff == fabsf(wrap_180(2 * _sector_middle_deg[i] - angle_degrees))
             closer == ~closest_found \/ angle_diff < closest_angle
         IN  IF fabsf(angle_diff) <= _sector_width_deg[i]
             THEN [ret |-> TRUE, sector |-> i]
             ELSE SectorScan(i + 1, angle_degrees,
                             TRUE,
                             IF closer THEN i ELSE closest_sector,
                             IF closer THEN angle_diff ELSE closest_angle,
                             sector)

\* angle_degrees in half degrees; sector is the output parameter's value before the call
convert_angle_to_sector(angle_degrees, sector) ==
    IF angle_degrees > 720 \/ angle_degrees < -360
    THEN [ret |-> FALSE, sector |-> sector]
    ELSE SectorScan(0,
                    IF angle_degrees < 0 THEN angle_degrees + 720 ELSE angle_degrees,
                    FALSE, 0, 0, sector)

(***************************************************************************)
(* update_boundary_for_sector, lines 161-196                               *)
(* valid, dist: the distance store; bp, ev: _boundary_point and            *)
(* _sector_edge_vector before the call.  Returns both after the call.      *)
(***************************************************************************)
\* update_boundary_for_sector with the floor of lines 184-186 repeated in the
\* second branch
update_boundary_for_sector_floor_both(valid, dist, bp, ev, sector) ==
    IF sector >= _num_sectors
    THEN [bp |-> bp, ev |-> ev]
    ELSE LET ev1 == IF is_zero(ev[sector])
                    THEN [ev EXCEPT ![sector] =
                            EdgeVector(_sector_middle_deg[sector], _sector_width_deg[sector])]
                    ELSE ev
             next_sector == IF sector + 1 >= _num_sectors THEN 0 ELSE sector + 1
             shortest1 == MIN(dist[sector], dist[next_sector])
             floored1 == IF shortest1 < PROXIMITY_BOUNDARY_DIST_MIN
                         THEN PROXIMITY_BOUNDARY_DIST_MIN ELSE shortest1
             bp1 == IF valid[sector] /\ valid[next_sector]
                    THEN [bp EXCEPT ![sector] = Scale(ev1[sector], floored1)]
                    ELSE bp
             prev_sector == IF sector = 0 THEN _num_sectors - 1 ELSE sector - 1
             shortest2 == MIN(dist[prev_sector], dist[sector])
             floored2 == IF shortest2 < PROXIMITY_BOUNDARY_DIST_MIN
                         THEN PROXIMITY_BOUNDARY_DIST_MIN ELSE shortest2
             bp2 == IF valid[prev_sector] /\ valid[sector]
                    THEN [bp1 EXCEPT ![prev_sector] = Scale(ev1[prev_sector], floored2)]
                    ELSE bp1
         IN  [bp |-> bp2, ev |-> ev1]

\* update_boundary_for_sector with next_sector for prev_sector in line 194
update_boundary_for_sector_next_for_prev(valid, dist, bp, ev, sector) ==
    IF sector >= _num_sectors
    THEN [bp |-> bp, ev |-> ev]
    ELSE LET ev1 == IF is_zero(ev[sector])
                    THEN [ev EXCEPT ![sector] =
                            EdgeVector(_sector_middle_deg[sector], _sector_width_deg[sector])]
                    ELSE ev
             next_sector == IF sector + 1 >= _num_sectors THEN 0 ELSE sector + 1
             shortest1 == MIN(dist[sector], dist[next_sector])
             floored == IF shortest1 < PROXIMITY_BOUNDARY_DIST_MIN
                        THEN PROXIMITY_BOUNDARY_DIST_MIN ELSE shortest1
             bp1 == IF valid[sector] /\ valid[next_sector]
                    THEN [bp EXCEPT ![sector] = Scale(ev1[sector], floored)]
                    ELSE bp
             prev_sector == IF sector = 0 THEN _num_sectors - 1 ELSE sector - 1
             shortest2 == MIN(dist[prev_sector], dist[sector])
             bp2 == IF valid[prev_sector] /\ valid[sector]
                    THEN [bp1 EXCEPT ![next_sector] = Scale(ev1[prev_sector], shortest2)]
                    ELSE bp1
         IN  [bp |-> bp2, ev |-> ev1]

update_boundary_for_sector(valid, dist, bp, ev, sector) ==
    IF sector >= _num_sectors
    THEN [bp |-> bp, ev |-> ev]
    ELSE LET ev1 == IF is_zero(ev[sector])
                    THEN [ev EXCEPT ![sector] =
                            EdgeVector(_sector_middle_deg[sector], _sector_width_deg[sector])]
                    ELSE ev
             next_sector == IF sector + 1 >= _num_sectors THEN 0 ELSE sector + 1
             shortest1 == MIN(dist[sector], dist[next_sector])
             floored == IF shortest1 < PROXIMITY_BOUNDARY_DIST_MIN
                        THEN PROXIMITY_BOUNDARY_DIST_MIN ELSE shortest1
             bp1 == IF valid[sector] /\ valid[next_sector]
                    THEN [bp EXCEPT ![sector] = Scale(ev1[sector], floored)]
                    ELSE bp
             prev_sector == IF sector = 0 THEN _num_sectors - 1 ELSE sector - 1
             shortest2 == MIN(dist[prev_sector], dist[sector])
             bp2 == IF valid[prev_sector] /\ valid[sector]
                    THEN [bp1 EXCEPT ![prev_sector] = Scale(ev1[prev_sector], shortest2)]
                    ELSE bp1
         IN  [bp |-> bp2, ev |-> ev1]

(***************************************************************************)
(* get_horizontal_distance, lines 32-42                                    *)
(***************************************************************************)
get_horizontal_distance(angle_deg, distance) ==
    LET c == convert_angle_to_sector(angle_deg, 0)
    IN  IF c.ret /\ _distance_valid[c.sector]
        THEN [ret |-> TRUE, distance |-> _distance[c.sector]]
        ELSE [ret |-> FALSE, distance |-> distance]

(***************************************************************************)
(* get_closest_object, lines 46-66                                         *)
(***************************************************************************)
RECURSIVE ClosestScan_last_tie(_, _, _)
\* ClosestScan with "<=" for "<" in line 54: the last of several closest sectors wins
ClosestScan_last_tie(i, sector_found, sector) ==
    IF i >= _num_sectors
    THEN << sector_found, sector >>
    ELSE IF _distance_valid[i] /\ (~sector_found \/ _distance[i] <= _distance[sector])
         THEN ClosestScan_last_tie(i + 1, TRUE, i)
         ELSE ClosestScan_last_tie(i + 1, sector_found, sector)

RECURSIVE ClosestScan(_, _, _)
\* the loop of lines 52-59 from index i on; the result is <<sector_found, sector>>
ClosestScan(i, sector_found, sector) ==
    IF i >= _num_sectors
    THEN << sector_found, sector >>
    ELSE IF _distance_valid[i] /\ (~sector_found \/ _distance[i] < _distance[sector])
         THEN ClosestScan(i + 1, TRUE, i)
         ELSE ClosestScan(i + 1, sector_found, sector)

\* get_closest_object with lines 62-63 outside the test of line 61
get_closest_object_always_assigns(angle_deg, distance) ==
    LET r == ClosestScan(0, FALSE, 0)
    IN  [ret |-> r[1], angle_deg |-> _angle[r[2]], distance |-> _distance[r[2]]]

get_closest_object(angle_deg, distance) ==
    LET r == ClosestScan(0, FALSE, 0)
    IN  IF r[1]
        THEN [ret |-> TRUE, angle_deg |-> _angle[r[2]], distance |-> _distance[r[2]]]
        ELSE [ret |-> FALSE, angle_deg |-> angle_deg, distance |-> distance]

(***************************************************************************)
(* get_object_count, lines 69-72                                           *)
(***************************************************************************)
get_object_count == _num_sectors

(***************************************************************************)
(* get_object_angle_and_distance, lines 76-84                              *)
(***************************************************************************)
\* get_object_angle_and_distance without the validity test of line 78
get_object_angle_and_distance_any(object_number, angle_deg, distance) ==
    IF object_number < _num_sectors
    THEN [ret |-> TRUE, angle_deg |-> _angle[object_number],
          distance |-> _distance[object_number]]
    ELSE [ret |-> FALSE, angle_deg |-> angle_deg, distance |-> distance]

get_object_angle_and_distance(object_number, angle_deg, distance) ==
    IF object_number < _num_sectors /\ _distance_valid[object_number]
    THEN [ret |-> TRUE, angle_deg |-> _angle[object_number],
          distance |-> _distance[object_number]]
    ELSE [ret |-> FALSE, angle_deg |-> angle_deg, distance |-> distance]

(***************************************************************************)
(* get_distances, lines 87-133                                             *)
(***************************************************************************)
Orientations == 0 .. 7

\* int16_t orientation = _angle[i] / 45 (line 114): float to integer conversion
OrientationOf(angle) == Trunc(angle, 90)

RECURSIVE FillSectors_last_wins(_, _, _)
\* FillSectors comparing with distance_max() instead of the slot in line 115: the
\* last sample of an orientation wins, not the smallest
FillSectors_last_wins(i, distance, dist_set) ==
    IF i >= _num_sectors
    THEN [distance |-> distance, dist_set |-> dist_set]
    ELSE LET orientation == OrientationOf(_angle[i])
         IN  IF /\ _distance_valid[i]
                /\ orientation >= 0
                /\ orientation < 8
                /\ _distance[i] < distance_max
             THEN FillSectors_last_wins(i + 1,
                              [distance EXCEPT ![orientation] = _distance[i]],
                              [dist_set EXCEPT ![orientation] = TRUE])
             ELSE FillSectors_last_wins(i + 1, distance, dist_set)

RECURSIVE FillSectors(_, _, _)
\* the loop of lines 111-120 from sector i on
FillSectors(i, distance, dist_set) ==
    IF i >= _num_sectors
    THEN [distance |-> distance, dist_set |-> dist_set]
    ELSE LET orientation == OrientationOf(_angle[i])
         IN  IF /\ _distance_valid[i]
                /\ orientation >= 0
                /\ orientation < 8
                /\ _distance[i] < distance[orientation]
             THEN FillSectors(i + 1,
                              [distance EXCEPT ![orientation] = _distance[i]],
                              [dist_set EXCEPT ![orientation] = TRUE])
             ELSE FillSectors(i + 1, distance, dist_set)

RECURSIVE FillGaps(_, _, _)
\* the loop of lines 123-131 from orientation i on; the sum of two distances is
\* halved exactly when it is even, which the sample distances make it
FillGaps(i, distance, dist_set) ==
    IF i >= 8
    THEN distance
    ELSE LET orient_before == IF i = 0 THEN 7 ELSE i - 1
             orient_after == IF i = 7 THEN 0 ELSE i + 1
         IN  IF ~dist_set[i] /\ dist_set[orient_before] /\ dist_set[orient_after]
             THEN FillGaps(i + 1,
                           [distance EXCEPT ![i] =
                               (distance[orient_before] + distance[orient_after]) \div 2],
                           dist_set)
             ELSE FillGaps(i + 1, distance, dist_set)

\* prx_dist_array: the caller's array before the call, [orientation, distance]
get_distances(prx_dist_array) ==
    IF ~(\E i \in Sectors : _distance_valid[i])
    THEN [ret |-> FALSE, prx_dist_array |-> prx_dist_array]
    ELSE LET filled == FillSectors(0, [k \in Orientations |-> distance_max],
                                   [k \in Orientations |-> FALSE])
         IN  [ret |-> TRUE,
              prx_dist_array |->
                 [orientation |-> [k \in Orientations |-> k],
                  distance |-> FillGaps(0, filled.distance, filled.dist_set)]]

(***************************************************************************)
(* get_boundary_points, lines 137-156                                      *)
(* ret is TRUE when _boundary_point is returned, FALSE for nullptr         *)
(***************************************************************************)
\* get_boundary_points whose loop of lines 146-151 ends after the first sector
get_boundary_points_first_sector(num_points) ==
    IF status # "Proximity_Good"
    THEN [ret |-> FALSE, num_points |-> 0]
    ELSE IF _num_sectors > 0 /\ ~_distance_valid[0]
         THEN [ret |-> FALSE, num_points |-> 0]
         ELSE [ret |-> TRUE, num_points |-> _num_sectors]

get_boundary_points(num_points) ==
    IF status # "Proximity_Good"
    THEN [ret |-> FALSE, num_points |-> 0]
    ELSE IF \E i \in Sectors : ~_distance_valid[i]
         THEN [ret |-> FALSE, num_points |-> 0]
         ELSE [ret |-> TRUE, num_points |-> _num_sectors]

(***************************************************************************)
(* ignore areas, lines 247-295                                             *)
(***************************************************************************)
get_ignore_area_count == Cardinality({i \in IgnoreSlots : _ignore_width_deg[i] # 0})

get_ignore_area(index, angle_deg, width_deg) ==
    IF index >= PROXIMITY_MAX_IGNORE
    THEN [ret |-> FALSE, angle_deg |-> angle_deg, width_deg |-> width_deg]
    ELSE [ret |-> TRUE, angle_deg |-> _ignore_angle_deg[index],
          width_deg |-> _ignore_width_deg[index]]

\* lines 280-281: int16_t(wrap_360(angle + offset/2.0f)), whole degrees
IgnoreStartAngle(start_or_end, i) ==
    LET offset == IF start_or_end = 0 THEN -_ignore_width_deg[i] ELSE _ignore_width_deg[i]
    IN  Trunc(wrap_360(2 * _ignore_angle_deg[i] + offset), 2)

\* IgnoreAngDiff without the wrap_360 of line 282
IgnoreAngDiff_no_wrap(ignore_start_angle, start_angle) ==
    ignore_start_angle - start_angle

\* line 282: int16_t(wrap_360(ignore_start_angle - start_angle)), whole degrees
IgnoreAngDiff(ignore_start_angle, start_angle) ==
    Trunc(wrap_360(2 * (ignore_start_angle - start_angle)), 2)

RECURSIVE IgnoreScan(_, _, _, _, _, _)
\* the loop of lines 278-289 from slot i on
IgnoreScan(i, start_or_end, start_angle, found, smallest_angle_diff, smallest_angle_start) ==
    IF i >= PROXIMITY_MAX_IGNORE
    THEN << found, smallest_angle_start >>
    ELSE LET ignore_start_angle == IgnoreStartAngle(start_or_end, i)
             ang_diff == IgnoreAngDiff(ignore_start_angle, start_angle)
         IN  IF _ignore_width_deg[i] # 0 /\ (~found \/ ang_diff < smallest_angle_diff)
             THEN IgnoreScan(i + 1, start_or_end, start_angle, TRUE, ang_diff,
                             ignore_start_angle)
             ELSE IgnoreScan(i + 1, start_or_end, start_angle, found,
                             smallest_angle_diff, smallest_angle_start)

get_next_ignore_start_or_end(start_or_end, start_angle, ignore_start) ==
    LET r == IgnoreScan(0, start_or_end, start_angle, FALSE, 0, 0)
    IN  IF r[1]
        THEN [ret |-> TRUE, ignore_start |-> r[2]]
        ELSE [ret |-> FALSE, ignore_start |-> ignore_start]

(***************************************************************************)
(* The state after construction                                            *)
(***************************************************************************)
\* every call is recorded as [name, args, prior, ret, out]: prior and out are the
\* output parameters before and after the call
Call(name, args, prior, ret, out) ==
    [name |-> name, args |-> args, prior |-> prior, ret |-> ret, out |-> out]

\* no call is in progress: the caller has taken the last call's result
Idle == Call("idle", << >>, << >>, TRUE, << >>)

\* zero-initialised members of a backend just constructed
InitStore ==
    /\ _angle = [i \in SectorSlots |-> 0]
    /\ _distance = [i \in SectorSlots |-> 0]
    /\ _distance_valid = [i \in SectorSlots |-> FALSE]
    /\ _boundary_point = [i \in SectorSlots |-> ZeroVec]
    /\ _sector_edge_vector = [i \in SectorSlots |-> ZeroVec]
    /\ status = "Proximity_NotConnected"
    /\ written = [i \in SectorSlots |-> << >>]
    /\ op = Idle

\* the default sector table: 45 degree sectors at 0, 45, 90, ...
DefaultSectors ==
    /\ _num_sectors \in 0 .. MaxSectors
    /\ _sector_middle_deg = [i \in SectorSlots |-> 45 * i]
    /\ _sector_width_deg = [i \in SectorSlots |-> 45]

\* one zone of 20 degrees centred at 90 in slot 0, or no zone at all; no operation
\* reads both the ignore parameters and the sectors, so the frontend without zones
\* is paired with the backend without sectors only
FewIgnoreZones ==
    /\ _ignore_angle_deg = [i \in IgnoreSlots |-> IF i = 0 THEN 90 ELSE 0]
    /\ \/ _ignore_width_deg = [i \in IgnoreSlots |-> IF i = 0 THEN 20 ELSE 0]
       \/ _num_sectors = 0 /\ _ignore_width_deg = [i \in IgnoreSlots |-> 0]

Init == DefaultSectors /\ FewIgnoreZones /\ InitStore

(***************************************************************************)
(* Writers                                                                 *)
(***************************************************************************)
\* bearings a driver reports, half degrees: -10, the middle of every sector but
\* the first, and 365 (out of domain)
WriteAngles == {-20, 730} \cup {90 * i : i \in 1 .. (MaxSectors - 1)}

\* a reading: distance in cm and whether the driver takes it as valid
Readings == { << 50, TRUE >>, << 300, TRUE >>, << 50, FALSE >> }

\* a driver's handling of one reading: resolve the sector, overwrite its sample,
\* update the boundary for that sector
WriteSample(angle_deg, reading) ==
    LET c == convert_angle_to_sector(angle_deg, 0)
        sector == c.sector
        valid == [_distance_valid EXCEPT ![sector] = reading[2]]
        dist == [_distance EXCEPT ![sector] = reading[1]]
        u == update_boundary_for_sector(valid, dist, _boundary_point,
                                        _sector_edge_vector, sector)
    IN  /\ op = Idle
        /\ c.ret
        /\ written' = [written EXCEPT ![sector] = << angle_deg, reading[1] >>]
        /\ _angle' = [_angle EXCEPT ![sector] = angle_deg]
        /\ _distance' = dist
        /\ _distance_valid' = valid
        /\ _boundary_point' = u.bp
        /\ _sector_edge_vector' = u.ev
        /\ op' = Call("write", << sector >>, << >>, TRUE, << >>)
        /\ UNCHANGED << status, config >>

Write == \E angle_deg \in WriteAngles, reading \in Readings : WriteSample(angle_deg, reading)

\* update_boundary_for_sector(sector) called on its own
UpdateBoundary ==
    \E sector \in 0 .. MaxSectors :
        LET u == update_boundary_for_sector(_distance_valid, _distance, _boundary_point,
                                            _sector_edge_vector, sector)
        IN  /\ op = Idle
            /\ _boundary_point' = u.bp
            /\ _sector_edge_vector' = u.ev
            /\ op' = Call("update_boundary_for_sector", << sector >>, << >>, TRUE, << >>)
            /\ UNCHANGED << _angle, _distance, _distance_valid, status, written, config >>

\* set_status, lines 199-202
set_status(s) ==
    /\ op = Idle
    /\ status' = s
    /\ op' = Call("set_status", << s >>, << >>, TRUE, << >>)
    /\ UNCHANGED << _angle, _distance, _distance_valid, _boundary_point,
                    _sector_edge_vector, written, config >>

SetStatus == \E s \in Proximity_Status : set_status(s)

(***************************************************************************)
(* Readers: each const method, called with arguments from small sets       *)
(***************************************************************************)
\* bearings asked for, half degrees: -10, 45, 200 (in the gap), 365 and -185 (out
\* of domain)
QueryAngles == {-20, 90, 400, 730, -370}

Observe(call) == op = Idle /\ op' = call /\ UNCHANGED << store, written, config >>

\* the caller takes the result of the call
Return == op # Idle /\ op' = Idle /\ UNCHANGED << store, written, config >>

GetHorizontalDistance ==
    \E angle_deg \in QueryAngles, d \in PriorValues :
        LET r == get_horizontal_distance(angle_deg, d)
        IN  Observe(Call("get_horizontal_distance", << angle_deg >>, << d >>,
                         r.ret, << r.distance >>))

GetClosestObject ==
    \E a \in PriorValues, d \in PriorValues :
        LET r == get_closest_object(a, d)
        IN  Observe(Call("get_closest_object", << >>, << a, d >>,
                         r.ret, << r.angle_deg, r.distance >>))

GetObjectCount ==
    Observe(Call("get_object_count", << >>, << >>, TRUE, << get_object_count >>))

GetObjectAngleAndDistance ==
    \E object_number \in 0 .. MaxSectors, a \in PriorValues, d \in PriorValues :
        LET r == get_object_angle_and_distance(object_number, a, d)
        IN  Observe(Call("get_object_angle_and_distance", << object_number >>, << a, d >>,
                         r.ret, << r.angle_deg, r.distance >>))

\* the caller's array before the call: every slot holds v
PriorArray(v) == [orientation |-> [k \in Orientations |-> v],
                  distance |-> [k \in Orientations |-> v]]

GetDistances ==
    \E v \in PriorValues :
        LET r == get_distances(PriorArray(v))
        IN  Observe(Call("get_distances", << >>, << PriorArray(v) >>,
                         r.ret, << r.prx_dist_array >>))

GetBoundaryPoints ==
    \E n \in PriorValues :
        LET r == get_boundary_points(n)
        IN  Observe(Call("get_boundary_points", << >>, << n >>, r.ret, << r.num_points >>))

ConvertAngleToSector ==
    \E angle_degrees \in QueryAngles, s \in PriorValues :
        LET r == convert_angle_to_sector(angle_degrees, s)
        IN  Observe(Call("convert_angle_to_sector", << angle_degrees >>, << s >>,
                         r.ret, << r.sector >>))

GetIgnoreAreaCount ==
    Observe(Call("get_ignore_area_count", << >>, << >>, TRUE, << get_ignore_area_count >>))

GetIgnoreArea ==
    \E index \in 0 .. PROXIMITY_MAX_IGNORE, a \in PriorValues, w \in PriorValues :
        LET r == get_ignore_area(index, a, w)
        IN  Observe(Call("get_ignore_area", << index >>, << a, w >>,
                         r.ret, << r.angle_deg, r.width_deg >>))

\* start angles asked from, whole degrees
FromAngles == {0, 85}

GetNextIgnoreStartOrEnd ==
    \E start_or_end \in {0, 1}, start_angle \in FromAngles, a \in PriorValues :
        LET r == get_next_ignore_start_or_end(start_or_end, start_angle, a)
        IN  Observe(Call("get_next_ignore_start_or_end", << start_or_end, start_angle >>,
                         << a >>, r.ret, << r.ignore_start >>))

Next ==
    \/ Write
    \/ UpdateBoundary
    \/ SetStatus
    \/ GetHorizontalDistance
    \/ GetClosestObject
    \/ GetObjectCount
    \/ GetObjectAngleAndDistance
    \/ GetDistances
    \/ GetBoundaryPoints
    \/ ConvertAngleToSector
    \/ GetIgnoreAreaCount
    \/ GetIgnoreArea
    \/ GetNextIgnoreStartOrEnd
    \/ Return

Spec == Init /\ [][Next]_vars

(***************************************************************************)
(* SpecSector: convert_angle_to_sector over sector tables with gaps,       *)
(* overlaps and ties                                                       *)
(***************************************************************************)
\* sector middles and widths tried, whole degrees
MiddleSamples == {0, 90, 350}
WidthSamples == {0, 45, 200}

\* bearings tried, half degrees: -185, -180.5, -180, -10, 0, 22.5, 23, 45, 170,
\* 220, 360, 360.5, 365
SectorAngles == {-370, -361, -360, -20, 0, 45, 46, 90, 340, 440, 720, 721, 730}

AnySectors ==
    /\ _num_sectors \in 0 .. MaxSectors
    /\ _sector_middle_deg \in [SectorSlots -> MiddleSamples]
    /\ _sector_width_deg \in [SectorSlots -> WidthSamples]
    /\ \A i \in SectorSlots : i >= _num_sectors =>
            _sector_middle_deg[i] = 0 /\ _sector_width_deg[i] = 0

NoIgnoreZones ==
    /\ _ignore_angle_deg = [i \in IgnoreSlots |-> 0]
    /\ _ignore_width_deg = [i \in IgnoreSlots |-> 0]

InitSector == AnySectors /\ NoIgnoreZones /\ InitStore

ConvertAnyAngle ==
    \E angle_degrees \in SectorAngles, s \in PriorValues :
        LET r == convert_angle_to_sector(angle_degrees, s)
        IN  Observe(Call("convert_angle_to_sector", << angle_degrees >>, << s >>,
                         r.ret, << r.sector >>))

NextSector == ConvertAnyAngle \/ Return

SpecSector == InitSector /\ [][NextSector]_vars

(***************************************************************************)
(* SpecStore: get_closest_object and get_distances over the contents a     *)
(* distance store can hold                                                 *)
(***************************************************************************)
\* sectors that tile the circle: N sectors of 360/N degrees (255 at most, the
\* width being a uint8_t)
TilingSectors ==
    /\ _num_sectors \in 0 .. MaxSectors
    /\ _sector_middle_deg = [i \in SectorSlots |->
            IF i < _num_sectors
            THEN (360 * i) \div _num_sectors + 180 \div _num_sectors
            ELSE 0]
    /\ _sector_width_deg = [i \in SectorSlots |->
            IF i < _num_sectors THEN MIN(360 \div _num_sectors, 255) ELSE 0]

\* bearings stored, half degrees: -10, 0, 100, 130, 135, 360
StoreAngles == {-20, 0, 200, 260, 270, 720}

\* distances stored, cm; 400 is the sensor's maximum range
StoreDistances == {50, 300, 400}

\* what sector i can hold: nothing yet, or a reading, valid or not, whose bearing
\* convert_angle_to_sector resolves to this sector
SamplesOf(i) ==
    { [angle |-> 0, distance |-> 0, valid |-> FALSE] } \cup
    { r \in [angle : StoreAngles, distance : StoreDistances, valid : BOOLEAN] :
        /\ i < _num_sectors
        /\ convert_angle_to_sector(r.angle, 0) = [ret |-> TRUE, sector |-> i]
        /\ r.valid \/ r.distance = 50 }

RECURSIVE StoreContents(_)
\* the contents of sectors 0 .. n-1, as a sequence
StoreContents(n) ==
    IF n = 0
    THEN { << >> }
    ELSE { Append(c, r) : c \in StoreContents(n - 1), r \in SamplesOf(n - 1) }

AnyStore ==
    /\ \E c \in StoreContents(MaxSectors) :
        /\ _angle = [i \in SectorSlots |-> c[i + 1].angle]
        /\ _distance = [i \in SectorSlots |-> c[i + 1].distance]
        /\ _distance_valid = [i \in SectorSlots |-> c[i + 1].valid]
    /\ _boundary_point = [i \in SectorSlots |-> ZeroVec]
    /\ _sector_edge_vector = [i \in SectorSlots |-> ZeroVec]
    /\ status \in Proximity_Status
    /\ written = [i \in SectorSlots |-> << _angle[i], _distance[i] >>]
    /\ op = Idle

InitFilled == TilingSectors /\ NoIgnoreZones /\ AnyStore

NextStore == GetClosestObject \/ GetDistances \/ GetObjectCount \/ Return

SpecStore == InitFilled /\ [][NextStore]_vars

(***************************************************************************)
(* SpecIgnore: the ignore-zone queries over the zones a frontend can hold  *)
(***************************************************************************)
\* zone centres and widths tried, whole degrees
IgnoreAngles == {0, 90, 350}
IgnoreWidths == {0, 20, 21, 45}

\* start angles asked from, whole degrees
IgnoreFromAngles == {-10, 0, 80, 85, 350}

AnyIgnoreZones ==
    /\ _ignore_angle_deg \in [IgnoreSlots -> IgnoreAngles]
    /\ _ignore_width_deg \in [IgnoreSlots -> IgnoreWidths]

InitIgnore == DefaultSectors /\ _num_sectors = MaxSectors /\ AnyIgnoreZones /\ InitStore

GetNextIgnoreFromAny ==
    \E start_or_end \in {0, 1}, start_angle \in IgnoreFromAngles, a \in PriorValues :
        LET r == get_next_ignore_start_or_end(start_or_end, start_angle, a)
        IN  Observe(Call("get_next_ignore_start_or_end", << start_or_end, start_angle >>,
                         << a >>, r.ret, << r.ignore_start >>))

NextIgnore == GetNextIgnoreFromAny \/ GetIgnoreArea \/ GetIgnoreAreaCount \/ Return

SpecIgnore == InitIgnore /\ [][NextIgnore]_vars

(***************************************************************************)
(* Properties                                                              *)
(***************************************************************************)
MinOf(S) == CHOOSE x \in S : \A y \in S : x <= y

MaxOf2(a, b) == IF a > b THEN a ELSE b

\* the clockwise and the counter-clockwise neighbour of sector i
Cw(i) == IF i + 1 >= _num_sectors THEN 0 ELSE i + 1
Ccw(i) == IF i = 0 THEN _num_sectors - 1 ELSE i - 1

\* the edge vector of sector i, as the sector table gives it
EdgeOf(i) == EdgeVector(_sector_middle_deg[i], _sector_width_deg[i])

\* C1: get_boundary_points returns the boundary array with num_points = N exactly
\* when status is Good and every sector 0..N-1 holds a valid sample; in every
\* other state it returns null with num_points = 0.
C1_AllOrNothing ==
    op.name = "get_boundary_points" =>
        IF status = "Proximity_Good" /\ \A i \in Sectors : _distance_valid[i]
        THEN op.ret /\ op.out = << _num_sectors >>
        ELSE ~op.ret /\ op.out = << 0 >>

\* a polygon of at least two points was returned
C1_Witness ==
    /\ op.name = "get_boundary_points"
    /\ op.ret
    /\ _num_sectors >= 2
    /\ op.out = << _num_sectors >>

\* C2: whenever sector i and its clockwise neighbour both hold valid samples, the
\* distance factor of BoundaryPoint[i] is max(min(distance[i], distance[next]),
\* PROXIMITY_BOUNDARY_DIST_MIN), whichever of the two sectors was updated last.
\* (Stated for a neighbour that is another sector; every write in Write is
\* followed by update_boundary_for_sector.)
C2_FlooredMinimum ==
    \A i \in Sectors :
        (Cw(i) # i /\ _distance_valid[i] /\ _distance_valid[Cw(i)]) =>
            _boundary_point[i] =
                Scale(EdgeOf(i), MaxOf2(MIN(_distance[i], _distance[Cw(i)]),
                                        PROXIMITY_BOUNDARY_DIST_MIN))

\* the operations that report failure
FailableQueries ==
    { "get_horizontal_distance", "get_closest_object", "get_object_angle_and_distance",
      "get_distances", "get_boundary_points", "convert_angle_to_sector",
      "get_ignore_area", "get_next_ignore_start_or_end" }

\* the operations that only read
Queries == FailableQueries \cup { "get_object_count", "get_ignore_area_count" }

\* C7 as claimed: every operation that reports failure leaves all of its output
\* parameters unmodified (get_boundary_points' num_points included) and leaves the
\* distance store, the boundary points and the status unchanged.
C7_FailureLeavesOutputs ==
    [][ (op'.name \in FailableQueries /\ ~op'.ret) =>
            (op'.out = op'.prior /\ UNCHANGED store) ]_vars

\* C7 as amended: a failing operation leaves the store unchanged and its output
\* parameters unmodified, except get_boundary_points, which sets num_points to 0.
C7_FailureLeavesOutputsButNumPoints ==
    [][ (op'.name \in FailableQueries /\ ~op'.ret) =>
            /\ UNCHANGED store
            /\ IF op'.name = "get_boundary_points"
               THEN op'.out = << 0 >>
               ELSE op'.out = op'.prior ]_vars

\* get_boundary_points failed for one missing sector and changed num_points
C7_Witness ==
    /\ op.name = "get_boundary_points"
    /\ ~op.ret
    /\ status = "Proximity_Good"
    /\ \E i \in Sectors : _distance_valid[i]
    /\ op.prior # op.out

\* C8: get_object_angle_and_distance(index) succeeds exactly when index < N and the
\* sector is valid, and then returns the angle and distance last written to it;
\* get_horizontal_distance(angle) succeeds exactly when convert_angle_to_sector
\* succeeds with a sector s that is valid, and then returns distance[s];
\* get_object_count returns N.
C8_NoInvalidSectorData ==
    /\ op.name = "get_object_angle_and_distance" =>
          /\ op.ret <=> (op.args[1] < _num_sectors /\ _distance_valid[op.args[1]])
          /\ op.ret => op.out = written[op.args[1]]
    /\ op.name = "get_horizontal_distance" =>
          LET c == convert_angle_to_sector(op.args[1], 0)
          IN  /\ op.ret <=> (c.ret /\ _distance_valid[c.sector])
              /\ op.ret => op.out = << written[c.sector][2] >>
    /\ op.name = "get_object_count" => op.out = << _num_sectors >>

\* a sector written at -10 degrees was read back while another sector is invalid
C8_Witness ==
    /\ op.name = "get_object_angle_and_distance"
    /\ op.ret
    /\ op.out[1] = -20
    /\ \E i \in Sectors : ~_distance_valid[i]

\* a step that runs update_boundary_for_sector: on its own, or at the end of a write
UpdateStep == op'.name \in { "write", "update_boundary_for_sector" }

\* C9: update_boundary_for_sector(s) changes at most the boundary points s and
\* s-1 mod N and the edge vector of s; it leaves every sector's valid flag,
\* distance and angle and the status unchanged and does nothing when s >= N.
\* Every query leaves the distance store, boundary points and status unchanged.
C9_Frame ==
    [][ /\ UpdateStep =>
            LET s == op'.args[1]
            IN  /\ \A i \in SectorSlots :
                     (i # s /\ i # Ccw(s)) => _boundary_point'[i] = _boundary_point[i]
                /\ \A i \in SectorSlots :
                     i # s => _sector_edge_vector'[i] = _sector_edge_vector[i]
        /\ op'.name = "update_boundary_for_sector" =>
            /\ UNCHANGED << _distance_valid, _distance, _angle, status >>
            /\ op'.args[1] >= _num_sectors => UNCHANGED store
        /\ op'.name \in Queries => UNCHANGED store ]_vars

\* an update ran with three sectors whose boundary points all hold a value
C9_Witness ==
    /\ op.name = "update_boundary_for_sector"
    /\ _num_sectors >= 3
    /\ op.args[1] < _num_sectors
    /\ \A i \in Sectors : ~is_zero(_boundary_point[i])

\* the effects of one update_boundary_for_sector(s), s < N, as C10 states them;
\* ccw_last tells whether the counter-clockwise assignment is taken to come last
\* when both assignments are to the same point
UpdateEffects(s, ccw_last) ==
    LET valid == _distance_valid'
        dist == _distance'
        cw_both == valid[s] /\ valid[Cw(s)]
        ccw_both == valid[Ccw(s)] /\ valid[s]
        cw_point == Scale(EdgeOf(s), MaxOf2(MIN(dist[s], dist[Cw(s)]),
                                            PROXIMITY_BOUNDARY_DIST_MIN))
        ccw_point == Scale(EdgeOf(Ccw(s)), MIN(dist[Ccw(s)], dist[s]))
    IN  /\ (cw_both /\ ~(ccw_last /\ Ccw(s) = s)) => _boundary_point'[s] = cw_point
        /\ ccw_both => _boundary_point'[Ccw(s)] = ccw_point
        /\ ~cw_both => _boundary_point'[s] = _boundary_point[s]
        /\ ~ccw_both => _boundary_point'[Ccw(s)] = _boundary_point[Ccw(s)]

\* C10 as claimed: update_boundary_for_sector(s), s < N, sets BoundaryPoint[s] to
\* edge_vector(s) * max(min(distance[s], distance[next]), PROXIMITY_BOUNDARY_DIST_MIN)
\* if s and next are valid, and sets BoundaryPoint[prev] to edge_vector(prev) *
\* min(distance[prev], distance[s]), without floor, if prev and s are valid; a
\* point whose pair is not both valid keeps its value.
C10_UpdateEffects ==
    [][ (UpdateStep /\ op'.args[1] < _num_sectors) =>
            UpdateEffects(op'.args[1], FALSE) ]_vars

\* C10 as amended: the same, but the counter-clockwise assignment comes last, so
\* with a single sector (prev = s) BoundaryPoint[s] ends with the unfloored value.
C10_UpdateEffectsInOrder ==
    [][ (UpdateStep /\ op'.args[1] < _num_sectors) =>
            UpdateEffects(op'.args[1], TRUE) ]_vars

\* sectors at 300 and 50: the clockwise point is floored to 60, the other is 50
C10_Witness ==
    /\ op.name \in { "write", "update_boundary_for_sector" }
    /\ _num_sectors >= 2
    /\ op.args[1] < _num_sectors
    /\ _distance[op.args[1]] = 300
    /\ _boundary_point[op.args[1]].len = 100 * PROXIMITY_BOUNDARY_DIST_MIN
    /\ _boundary_point[Ccw(op.args[1])].len = 100 * 50

\* the wrapped absolute difference of two bearings, half degrees
CircDiff(a, b) == MIN((a - b) % 720, (b - a) % 720)

\* C3: convert_angle_to_sector(angle) fails exactly when angle is outside
\* [-180, 360] or there are no sectors.  Otherwise, with a negative angle
\* normalised by +360, it returns the lowest-indexed sector whose half-width covers
\* the wrapped absolute difference to its middle, and if there is none the sector
\* whose middle has the smallest such difference, the lowest index on ties.
C3_SectorOfAngle ==
    op.name = "convert_angle_to_sector" =>
        LET angle == op.args[1]
            normal == IF angle < 0 THEN angle + 720 ELSE angle
            diff(i) == CircDiff(2 * _sector_middle_deg[i], normal)
            covering == { i \in Sectors : diff(i) <= _sector_width_deg[i] }
            nearest == { i \in Sectors : \A j \in Sectors : diff(i) <= diff(j) }
        IN  IF angle > 720 \/ angle < -360 \/ _num_sectors = 0
            THEN ~op.ret
            ELSE /\ op.ret
                 /\ op.out = << IF covering # {} THEN MinOf(covering) ELSE MinOf(nearest) >>

\* a bearing in a gap, as near to one sector's middle as to a later one's
C3_Witness ==
    /\ op.name = "convert_angle_to_sector"
    /\ op.ret
    /\ \A i \in Sectors :
          CircDiff(2 * _sector_middle_deg[i], op.args[1]) > _sector_width_deg[i]
    /\ \E i \in Sectors :
          /\ i > op.out[1]
          /\ CircDiff(2 * _sector_middle_deg[i], op.args[1]) =
             CircDiff(2 * _sector_middle_deg[op.out[1]], op.args[1])

\* C4: get_closest_object fails exactly when no sector is valid; otherwise it
\* returns the stored angle and distance of the valid sector of minimal distance,
\* the lowest index among several; invalid sectors never influence the result.
C4_ClosestValid ==
    op.name = "get_closest_object" =>
        LET valid == { i \in Sectors : _distance_valid[i] }
            best == { i \in valid : \A j \in valid : _distance[i] <= _distance[j] }
        IN  IF valid = {}
            THEN ~op.ret
            ELSE /\ op.ret
                 /\ op.out = << _angle[MinOf(best)], _distance[MinOf(best)] >>

\* two valid sectors tie at different bearings while an invalid one holds less
C4_Witness ==
    /\ op.name = "get_closest_object"
    /\ op.ret
    /\ \E i \in Sectors : ~_distance_valid[i] /\ _distance[i] < op.out[2] /\ _distance[i] > 0
    /\ \E i, j \in Sectors :
          /\ i < j
          /\ _distance_valid[i] /\ _distance_valid[j]
          /\ _distance[i] = op.out[2] /\ _distance[j] = op.out[2]
          /\ _angle[i] # _angle[j]

\* what C5 says get_distances returns, the bucket of a bearing being bucket(angle)
DistancesAsClaimed(bucket(_)) ==
    LET direct(k) == { _distance[i] : i \in { j \in Sectors :
                          /\ _distance_valid[j]
                          /\ bucket(_angle[j]) = k
                          /\ _distance[j] < distance_max } }
        before(k) == (k + 7) % 8
        after(k) == (k + 1) % 8
    IN  [k \in Orientations |->
            IF direct(k) # {}
            THEN MinOf(direct(k))
            ELSE IF direct(before(k)) # {} /\ direct(after(k)) # {}
                 THEN (MinOf(direct(before(k))) + MinOf(direct(after(k)))) \div 2
                 ELSE distance_max]

\* floor(angle / 45), the angle in half degrees
FloorBucket(angle) == angle \div 90

\* angle / 45 truncated toward zero, the angle in half degrees
TruncBucket(angle) == IF angle >= 0 THEN angle \div 90 ELSE -((-angle) \div 90)

\* C5 as claimed: get_distances fails exactly when no sector is valid; on success
\* slot k holds the smallest distance below the maximum range among the valid
\* samples with floor(angle/45) = k, else the mean of its two neighbours if both
\* were set by samples, else the maximum range.
C5_Distances ==
    op.name = "get_distances" =>
        IF \A i \in Sectors : ~_distance_valid[i]
        THEN ~op.ret
        ELSE op.ret /\ op.out[1].distance = DistancesAsClaimed(FloorBucket)

\* C5 as amended: the same with angle/45 truncated toward zero, so that a valid
\* sample at a bearing in (-45, 0) counts for slot 0.
C5_DistancesTruncated ==
    op.name = "get_distances" =>
        IF \A i \in Sectors : ~_distance_valid[i]
        THEN ~op.ret
        ELSE op.ret /\ op.out[1].distance = DistancesAsClaimed(TruncBucket)

\* samples in slots 0 and 3 only, the one in slot 0 at a negative bearing: slots 1
\* and 2 stay at the maximum range
C5_Witness ==
    /\ op.name = "get_distances"
    /\ op.ret
    /\ \E i \in Sectors : _distance_valid[i] /\ _angle[i] < 0
    /\ op.out[1].distance[0] < distance_max
    /\ op.out[1].distance[3] < distance_max
    /\ op.out[1].distance[1] = distance_max
    /\ op.out[1].distance[2] = distance_max

\* what C6 says get_next_ignore_start_or_end returns, in half degrees when
\* unit = 1 and with every boundary truncated to a whole degree when unit = 2
NextIgnoreAsClaimed(start_or_end, start_angle, unit) ==
    LET zones == { i \in IgnoreSlots : _ignore_width_deg[i] # 0 }
        boundary(i) ==
            ((2 * _ignore_angle_deg[i] +
                (IF start_or_end = 0 THEN -_ignore_width_deg[i] ELSE _ignore_width_deg[i]))
             % 720) \div unit
        clockwise(i) == (boundary(i) - (2 \div unit) * start_angle) % (720 \div unit)
        best == { i \in zones : \A j \in zones : clockwise(i) <= clockwise(j) }
    IN  boundary(MinOf(best))

\* C6 as claimed: get_next_ignore_start_or_end fails exactly when every zone has
\* width 0; otherwise it returns the start (center - width/2) or end (center +
\* width/2) angle, wrapped into [0,360), that is the nearest clockwise from
\* from_angle, the lowest-indexed zone winning ties.
C6_NextIgnore ==
    op.name = "get_next_ignore_start_or_end" =>
        IF \A i \in IgnoreSlots : _ignore_width_deg[i] = 0
        THEN ~op.ret
        ELSE op.ret /\ 2 * op.out[1] = NextIgnoreAsClaimed(op.args[1], op.args[2], 1)

\* C6 as amended: the same with every start or end angle truncated to a whole
\* degree before the clockwise distances are compared and the angle is returned.
C6_NextIgnoreTruncated ==
    op.name = "get_next_ignore_start_or_end" =>
        IF \A i \in IgnoreSlots : _ignore_width_deg[i] = 0
        THEN ~op.ret
        ELSE op.ret /\ op.out[1] = NextIgnoreAsClaimed(op.args[1], op.args[2], 2)

\* one zone at 90 of width 21, start asked from 0: 79 is returned for 79.5
C6_Witness ==
    /\ op.name = "get_next_ignore_start_or_end"
    /\ op.args = << 0, 0 >>
    /\ _ignore_angle_deg[0] = 90
    /\ _ignore_width_deg[0] = 21
    /\ \A i \in IgnoreSlots : i # 0 => _ignore_width_deg[i] = 0
    /\ op.ret
    /\ op.out = << 79 >>

=============================================================================
